---- MODULE Spec2Model ----
(***************************************************************************)
(* Model of src/tugas.py: a Streamlit dashboard script over a CSV of       *)
(* COVID-19 vaccination records.  The script is re-executed top to bottom  *)
(* on every user interaction; only load_data is memoized (st.cache_data).  *)
(*                                                                         *)
(* A record of the dataframe is a TLA+ record with the fields index (the   *)
(* dataframe's row label), country, date and the four numeric columns.     *)
(* A missing numeric value (pandas NaN) is the value NaN.  Dates are whole *)
(* days; pd.to_datetime maps a picked calendar day to midnight of that     *)
(* day, the value the parsed "date" column holds for it.                   *)
(***************************************************************************)
EXTENDS Integers, Sequences, FiniteSets, TLC

\* ------------------------------------------------------------------ bounds
MaxRows == 2            \* rows of the small CSV files
MaxDate == 2            \* calendar days 1..MaxDate
MaxReads == 2           \* cap of the pd.read_csv call counter

\* --------------------------------------------------------- program values
NaN == -1               \* a missing numeric value (dropna, GroupBy.last skip it)
DefaultCountries == 5   \* df["country"].unique()[:5]
SMALL_QUICKSORT == 16   \* numpy's quicksort handles ranges up to 17 by insertion

CountryOrder == <<"A", "B">>          \* ascending order of the country names
Countries == {CountryOrder[i] : i \in DOMAIN CountryOrder}
Dates == 1..MaxDate

num_cols == <<"total_vaccinations", "people_vaccinated",
              "people_fully_vaccinated", "daily_vaccinations">>
NumColSet == {num_cols[i] : i \in DOMAIN num_cols}

\* which numeric columns a CSV line leaves empty
MissingPatterns == { {}, {"people_fully_vaccinated", "daily_vaccinations"} }

NoData == <<>>

\* ------------------------------------------------------------ CSV contents
\* A well-formed file has at least one line, and every line names a country
\* and a date (a line without a date never passes the filter; the widgets
\* of lines 48-57 are not defined over an empty dataframe).
\* Line k of a CSV file: every numeric value present in the line is k, so a
\* value tells which line it was read from.
CsvLine(k, c, d, miss) ==
    [country |-> c, date |-> d,
     total_vaccinations      |-> IF "total_vaccinations" \in miss THEN NaN ELSE k,
     people_vaccinated       |-> IF "people_vaccinated" \in miss THEN NaN ELSE k,
     people_fully_vaccinated |-> IF "people_fully_vaccinated" \in miss THEN NaN ELSE k,
     daily_vaccinations      |-> IF "daily_vaccinations" \in miss THEN NaN ELSE k]

LineChoices == Countries \X Dates \X MissingPatterns

SmallFiles ==
    UNION { { [k \in 1..n |-> CsvLine(k, f[k][1], f[k][2], f[k][3])] :
                f \in [1..n -> LineChoices] } : n \in 1..MaxRows }

\* Files long enough for the partition phase of the sort: BigRows lines of
\* one country, all complete, the lines in late dated 2 and the others 1.
BigRows == SMALL_QUICKSORT + 2
BigFile(late) ==
    [k \in 1..BigRows |-> CsvLine(k, "A", IF k \in late THEN 2 ELSE 1, {})]
BigFiles == { BigFile(1..BigRows), BigFile(1..(BigRows - 1)),
              BigFile({1, BigRows}) }

Files == SmallFiles \cup BigFiles

\* the file somebody puts in place of a removed one
OtherFile == <<CsvLine(1, "B", 1, {})>>

\* a file whose header has no date column
NoDateFile ==
    <<[country |-> "A", total_vaccinations |-> 1, people_vaccinated |-> 1,
       people_fully_vaccinated |-> 1, daily_vaccinations |-> 1]>>

\* line 25: df["date"] raises KeyError on a frame without the column
HasDateColumn(lines) == \A k \in DOMAIN lines : "date" \in DOMAIN lines[k]

\* ---------------------------------------------- lines 24-26: pd.read_csv
\* The dataframe read from the file: one row per line, labelled 0, 1, ...
\* (RangeIndex), the date column parsed.
ReadCsv(lines) ==
    [k \in DOMAIN lines |->
        [index |-> k - 1, country |-> lines[k].country, date |-> lines[k].date,
         total_vaccinations      |-> lines[k].total_vaccinations,
         people_vaccinated       |-> lines[k].people_vaccinated,
         people_fully_vaccinated |-> lines[k].people_fully_vaccinated,
         daily_vaccinations      |-> lines[k].daily_vaccinations]]

\* ------------------------------------------------- lines 62-65: the filter
\* faulty variant: the right end of the interval excluded
BetweenOpenRight(d, left, right) == left <= d /\ d < right

\* Series.between(left, right): inclusive on both sides.
Between(d, left, right) == left <= d /\ d <= right

\* df[df["country"].isin(countries) & df["date"].between(start, end)]:
\* boolean-mask selection keeps the selected rows, their labels and order.
FilterRows(frame, cs, start, end) ==
    SelectSeq(frame, LAMBDA r : r.country \in cs /\ Between(r.date, start, end))

\* ------------------------------------------------ lines 72-78: clean_df
\* filtered_df[num_cols]: the four numeric columns under the same labels.
Project(r) ==
    [index |-> r.index,
     total_vaccinations      |-> r.total_vaccinations,
     people_vaccinated       |-> r.people_vaccinated,
     people_fully_vaccinated |-> r.people_fully_vaccinated,
     daily_vaccinations      |-> r.daily_vaccinations]

\* faulty variant: only the first column is looked at
HasMissingTotal(r) == r.total_vaccinations = NaN

HasMissing(r) == \E c \in NumColSet : r[c] = NaN

\* .dropna(): how="any", drops a row with a missing value in any column.
DropNa(frame) == SelectSeq(frame, LAMBDA r : ~HasMissing(r))

CleanNumeric(frame) == DropNa([i \in DOMAIN frame |-> Project(frame[i])])

\* ------------------------------------- lines 81-82: sort_values("date")
\* DataFrame.sort_values defaults to kind="quicksort": the argsort of the
\* date column by numpy's introsort on an index array (aquicksort).  t is
\* the index array, v the dates, pl..pr the range being sorted.  The depth
\* limit that falls back to heapsort is not reached for the lengths of
\* this model (one partition leaves both sides at most SMALL_QUICKSORT + 1
\* long).
Swap(t, i, j) == [t EXCEPT ![i] = t[j], ![j] = t[i]]

\* median of three: orders v[t[pl]], v[t[pm]], v[t[pr]]
MedianOfThree(t, v, pl, pm, pr) ==
    LET t1 == IF v[t[pm]] < v[t[pl]] THEN Swap(t, pm, pl) ELSE t
        t2 == IF v[t1[pr]] < v[t1[pm]] THEN Swap(t1, pr, pm) ELSE t1
    IN  IF v[t2[pm]] < v[t2[pl]] THEN Swap(t2, pm, pl) ELSE t2

RECURSIVE ScanUp(_, _, _, _)
ScanUp(t, v, pi, vp) ==
    IF v[t[pi]] < vp THEN ScanUp(t, v, pi + 1, vp) ELSE pi

RECURSIVE ScanDown(_, _, _, _)
ScanDown(t, v, pj, vp) ==
    IF vp < v[t[pj]] THEN ScanDown(t, v, pj - 1, vp) ELSE pj

RECURSIVE PartitionLoop(_, _, _, _, _)
PartitionLoop(t, v, pi, pj, vp) ==
    LET i == ScanUp(t, v, pi + 1, vp)
        j == ScanDown(t, v, pj - 1, vp)
    IN  IF i >= j THEN <<t, i>>
        ELSE PartitionLoop(Swap(t, i, j), v, i, j, vp)

\* one partition of pl..pr: <<index array, final position of the pivot>>
Partition(t, v, pl, pr) ==
    LET pm == pl + ((pr - pl) \div 2)
        t3 == MedianOfThree(t, v, pl, pm, pr)
        vp == v[t3[pm]]
        t4 == Swap(t3, pm, pr - 1)
        lp == PartitionLoop(t4, v, pl, pr - 1, vp)
    IN  <<Swap(lp[1], lp[2], pr - 1), lp[2]>>

RECURSIVE ShiftDown(_, _, _, _, _)
ShiftDown(t, v, pl, pj, vi) ==
    IF pj > pl /\ v[vi] < v[t[pj - 1]]
    THEN ShiftDown([t EXCEPT ![pj] = t[pj - 1]], v, pl, pj - 1, vi)
    ELSE [t EXCEPT ![pj] = vi]

RECURSIVE InsertionSort(_, _, _, _, _)
InsertionSort(t, v, pl, pr, pi) ==
    IF pi > pr THEN t
    ELSE InsertionSort(ShiftDown(t, v, pl, pi, t[pi]), v, pl, pr, pi + 1)

RECURSIVE AQuicksort(_, _, _, _)
AQuicksort(t, v, pl, pr) ==
    IF pr - pl > SMALL_QUICKSORT
    THEN LET p == Partition(t, v, pl, pr)
         IN  AQuicksort(AQuicksort(p[1], v, pl, p[2] - 1), v, p[2] + 1, pr)
    ELSE InsertionSort(t, v, pl, pr, pl + 1)

ArgSort(v) == AQuicksort([i \in DOMAIN v |-> i], v, 1, Len(v))

\* faulty variant: the frame is grouped without the sort
Unsorted(frame) == frame

SortValues(frame) ==
    LET perm == ArgSort([i \in DOMAIN frame |-> frame[i].date])
    IN  [i \in DOMAIN frame |-> frame[perm[i]]]

\* --------------------- lines 83-85: .groupby("country").last().reset_index()
\* GroupBy.last: per column, the last entry of the group that is not
\* missing (missing when the group has none).
LastValid(s) ==
    IF \A i \in DOMAIN s : s[i] = NaN THEN NaN
    ELSE s[CHOOSE i \in DOMAIN s :
                /\ s[i] # NaN
                /\ \A j \in DOMAIN s : j > i => s[j] = NaN]

Column(frame, col) == [i \in DOMAIN frame |-> frame[i][col]]

GroupLast(group, key) ==
    [country |-> key,
     date                    |-> LastValid(Column(group, "date")),
     total_vaccinations      |-> LastValid(Column(group, "total_vaccinations")),
     people_vaccinated       |-> LastValid(Column(group, "people_vaccinated")),
     people_fully_vaccinated |-> LastValid(Column(group, "people_fully_vaccinated")),
     daily_vaccinations      |-> LastValid(Column(group, "daily_vaccinations"))]

\* groupby sorts the group keys; a group keeps the frame's row order.
GroupKeys(frame) ==
    SelectSeq(CountryOrder, LAMBDA c : \E i \in DOMAIN frame : frame[i].country = c)

GroupByLast(frame) ==
    LET keys == GroupKeys(frame)
    IN  [g \in DOMAIN keys |->
            GroupLast(SelectSeq(frame, LAMBDA r : r.country = keys[g]), keys[g])]

LatestPerCountry(frame) == GroupByLast(SortValues(frame))

\* ------------------------------------------ lines 48-57: sidebar widgets
RECURSIVE UniqueFrom(_, _)
\* Series.unique(): the distinct values in order of first appearance
UniqueFrom(s, seen) ==
    IF s = <<>> THEN <<>>
    ELSE IF Head(s) \in seen THEN UniqueFrom(Tail(s), seen)
    ELSE <<Head(s)>> \o UniqueFrom(Tail(s), seen \cup {Head(s)})

Unique(s) == UniqueFrom(s, {})

\* options=sorted(df["country"].unique())
CountryOptions(frame) == {frame[i].country : i \in DOMAIN frame}

\* default=df["country"].unique()[:5]
DefaultSelection(frame) ==
    LET u == Unique(Column(frame, "country"))
    IN  {u[i] : i \in 1..(IF Len(u) < DefaultCountries THEN Len(u) ELSE DefaultCountries)}

MinDate(frame) == CHOOSE d \in {frame[i].date : i \in DOMAIN frame} :
                     \A i \in DOMAIN frame : d <= frame[i].date
MaxDateOf(frame) == CHOOSE d \in {frame[i].date : i \in DOMAIN frame} :
                     \A i \in DOMAIN frame : d >= frame[i].date

\* [df["date"].min(), df["date"].max()]
DefaultRange(frame) == <<MinDate(frame), MaxDateOf(frame)>>

\* ------------------------------------------------- lines 94-97: the KPIs
RECURSIVE SumSkipNa(_)
\* Series.sum(): missing values are skipped, the empty sum is 0
SumSkipNa(s) ==
    IF s = <<>> THEN 0
    ELSE (IF Head(s) = NaN THEN 0 ELSE Head(s)) + SumSkipNa(Tail(s))

Kpi(filtered, last) ==
    [negara   |-> Cardinality(CountryOptions(filtered)),
     total    |-> SumSkipNa(Column(last, "total_vaccinations")),
     sudah    |-> SumSkipNa(Column(last, "people_vaccinated")),
     lengkap  |-> SumSkipNa(Column(last, "people_fully_vaccinated"))]

\* --------------------------------------- lines 154-158: the daily metrics
\* the k-th smallest entry of s
KthSmallest(s, k) ==
    CHOOSE x \in {s[i] : i \in DOMAIN s} :
        /\ Cardinality({i \in DOMAIN s : s[i] < x}) < k
        /\ Cardinality({i \in DOMAIN s : s[i] <= x}) >= k

\* int(mean), int(median), int(max), int(min) of a column without missing
\* values; the values are not negative, so int() is the floor.
DailyStats(s) ==
    LET n == Len(s)
    IN  [mean   |-> SumSkipNa(s) \div n,
         median |-> IF n % 2 = 1 THEN KthSmallest(s, (n + 1) \div 2)
                    ELSE (KthSmallest(s, n \div 2) + KthSmallest(s, n \div 2 + 1)) \div 2,
         max    |-> KthSmallest(s, n),
         min    |-> KthSmallest(s, 1)]

\* int(float("nan")) raises ValueError: the mean, median, max and min of an
\* empty column are missing.
StatsRaise(clean) == clean = <<>>

\* date_range[1] raises IndexError while the picker holds a single day.
RangeRaises(range) == Len(range) < 2

\* ------------------------------------------------------------------ state
VARIABLES
    fileExists,     \* country_vaccinations.csv is on disk
    fileData,       \* its lines
    cache,          \* st.cache_data entry of load_data(): <<>> or <<df>>
    reads,          \* pd.read_csv calls made by the process
    pc,             \* position of the script run
    outcome,        \* how the run ended
    ran,            \* what the run has executed or shown so far
    countries,      \* value of the multiselect
    date_range,     \* value of the date_input
    widgets,        \* the session holds a state for the two widgets
    df, filtered_df, clean_df, latest,   \* the script's dataframes
    kpi, stats,     \* values handed to the metric elements
    prev            \* observation: the run before a rerun without widget change

vars == <<fileExists, fileData, cache, reads, pc, outcome, ran, countries,
          date_range, widgets, df, filtered_df, clean_df, latest, kpi, stats, prev>>

disk == <<fileExists, fileData>>
session == <<countries, date_range, widgets>>
frames == <<filtered_df, clean_df, latest, kpi, stats>>

NoPrev == <<>>
Tabs == {"tab1", "tab2", "tab3", "tab4", "tab5", "tab6"}

Init ==
    /\ fileExists \in BOOLEAN
    /\ fileData \in (IF fileExists THEN Files \cup {NoDateFile} ELSE {<<>>})
    /\ cache = <<>>
    /\ reads = 0
    /\ pc = "load"
    /\ outcome = "none"
    /\ ran = {}
    /\ countries = {}
    /\ date_range = <<>>
    /\ widgets = FALSE
    /\ df = NoData
    /\ filtered_df = NoData
    /\ clean_df = NoData
    /\ latest = NoData
    /\ kpi = NoData
    /\ stats = NoData
    /\ prev = NoPrev

\* --------------------------------------------- lines 18-28: load_data()
\* faulty variant: the decorator left out, no entry is ever found
NotMemoized(entries) == <<>>

\* @st.cache_data: the entry stored for the call, if any.
Memoized(entries) == entries

\* faulty variant: the existence test left out
FileNeverMissing(exists) == FALSE

\* line 21: not data_path.exists()
FileMissing(exists) == ~exists

\* cache hit: the function body does not run
LoadDataHit ==
    /\ pc = "load"
    /\ Memoized(cache) # <<>>
    /\ df' = Memoized(cache)[1]
    /\ pc' = "sidebar"
    /\ ran' = ran \cup {"header"}
    /\ UNCHANGED <<disk, cache, reads, outcome, session, frames, prev>>

\* cache miss, line 21 finds the file: the body goes on to line 24
LoadDataExists ==
    /\ pc = "load"
    /\ Memoized(cache) = <<>>
    /\ ~FileMissing(fileExists)
    /\ pc' = "read"
    /\ UNCHANGED <<disk, cache, reads, outcome, ran, session, df, frames, prev>>

\* lines 24-26: read, parse, return; the result is stored
LoadDataRead ==
    /\ pc = "read"
    /\ fileExists
    /\ HasDateColumn(fileData)
    /\ reads < MaxReads
    /\ reads' = reads + 1
    /\ cache' = <<ReadCsv(fileData)>>
    /\ df' = ReadCsv(fileData)
    /\ pc' = "sidebar"
    /\ ran' = ran \cup {"read_csv", "header"}
    /\ UNCHANGED <<disk, outcome, session, frames, prev>>

\* lines 24-25 raise: pd.read_csv finds no file (FileNotFoundError), or the
\* frame read has no date column (KeyError).  The exception leaves
\* load_data, nothing is stored, the run ends.
LoadDataRaises ==
    /\ pc = "read"
    /\ ~fileExists \/ ~HasDateColumn(fileData)
    /\ reads < MaxReads
    /\ reads' = reads + 1
    /\ ran' = ran \cup {"read_csv", "exception"}
    /\ outcome' = "Failure"
    /\ pc' = "end"
    /\ UNCHANGED <<disk, cache, session, df, frames, prev>>

\* cache miss, file absent: st.error and st.stop
LoadDataMissing ==
    /\ pc = "load"
    /\ Memoized(cache) = <<>>
    /\ FileMissing(fileExists)
    /\ ran' = ran \cup {"error"}
    /\ outcome' = "MissingFile"
    /\ pc' = "end"
    /\ UNCHANGED <<disk, cache, reads, session, df, frames, prev>>

\* ------------------------------------------------ lines 46-57: the sidebar
\* A widget returns the session's value, its default on its first run.
Sidebar ==
    /\ pc = "sidebar"
    /\ countries' = IF widgets THEN countries ELSE DefaultSelection(df)
    /\ date_range' = IF widgets THEN date_range ELSE DefaultRange(df)
    /\ widgets' = TRUE
    /\ ran' = ran \cup {"sidebar"}
    /\ pc' = "filter"
    /\ UNCHANGED <<disk, cache, reads, outcome, df, frames, prev>>

\* ------------------------------------------------ lines 62-69: the filter
\* faulty variant: the emptiness test left out
NeverEmpty(frame) == FALSE

\* line 67: filtered_df.empty
IsEmpty(frame) == Len(frame) = 0

FilterRaises ==
    /\ pc = "filter"
    /\ RangeRaises(date_range)
    /\ ran' = ran \cup {"exception"}
    /\ outcome' = "Failure"
    /\ pc' = "end"
    /\ UNCHANGED <<disk, cache, reads, session, df, frames, prev>>

FilterEmpty ==
    /\ pc = "filter"
    /\ ~RangeRaises(date_range)
    /\ IsEmpty(FilterRows(df, countries, date_range[1], date_range[2]))
    /\ filtered_df' = FilterRows(df, countries, date_range[1], date_range[2])
    /\ ran' = ran \cup {"filter", "warning"}
    /\ outcome' = "EmptyFilterResult"
    /\ pc' = "end"
    /\ UNCHANGED <<disk, cache, reads, session, df, clean_df, latest, kpi, stats, prev>>

FilterData ==
    /\ pc = "filter"
    /\ ~RangeRaises(date_range)
    /\ ~IsEmpty(FilterRows(df, countries, date_range[1], date_range[2]))
    /\ filtered_df' = FilterRows(df, countries, date_range[1], date_range[2])
    /\ ran' = ran \cup {"filter"}
    /\ pc' = "aggregate"
    /\ UNCHANGED <<disk, cache, reads, outcome, session, df, clean_df, latest, kpi, stats, prev>>

\* ---------------------------------------- lines 72-86: clean_df and latest
Aggregate ==
    /\ pc = "aggregate"
    /\ clean_df' = CleanNumeric(filtered_df)
    /\ latest' = LatestPerCountry(filtered_df)
    /\ ran' = ran \cup {"aggregate"}
    /\ pc' = "kpi"
    /\ UNCHANGED <<disk, cache, reads, outcome, session, df, filtered_df, kpi, stats, prev>>

\* ------------------------------------------------------ lines 91-99: KPI
KpiMetrics ==
    /\ pc = "kpi"
    /\ kpi' = Kpi(filtered_df, latest)
    /\ ran' = ran \cup {"kpi"}
    /\ pc' = "tabs"
    /\ UNCHANGED <<disk, cache, reads, outcome, session, df, filtered_df, clean_df, latest, stats, prev>>

\* ------------------------------------------------- lines 104-205: the tabs
\* tab3 raises at its first metric when clean_df is empty
TabsRaise ==
    /\ pc = "tabs"
    /\ StatsRaise(clean_df)
    /\ ran' = ran \cup {"tab1", "tab2", "exception"}
    /\ outcome' = "Failure"
    /\ pc' = "end"
    /\ UNCHANGED <<disk, cache, reads, session, df, frames, prev>>

TabsRender ==
    /\ pc = "tabs"
    /\ ~StatsRaise(clean_df)
    /\ stats' = DailyStats(Column(clean_df, "daily_vaccinations"))
    /\ ran' = ran \cup Tabs
    /\ pc' = "footer"
    /\ UNCHANGED <<disk, cache, reads, outcome, session, df, filtered_df, clean_df, latest, kpi, prev>>

\* ------------------------------------------------ lines 210-214: the footer
Footer ==
    /\ pc = "footer"
    /\ ran' = ran \cup {"footer"}
    /\ outcome' = "Rendered"
    /\ pc' = "end"
    /\ UNCHANGED <<disk, cache, reads, session, df, frames, prev>>

\* ----------------------------------------------- the next run of the script
\* Streamlit runs the script again from its first line; module globals of
\* the finished run are gone, the cache and the widget state stay.
Snapshot ==
    [countries |-> countries, date_range |-> date_range, outcome |-> outcome,
     loaded |-> df # NoData,
     filtered_df |-> filtered_df, clean_df |-> clean_df, latest |-> latest]

StartRun ==
    /\ pc' = "load"
    /\ outcome' = "none"
    /\ ran' = {}
    /\ df' = NoData
    /\ filtered_df' = NoData
    /\ clean_df' = NoData
    /\ latest' = NoData
    /\ kpi' = NoData
    /\ stats' = NoData

\* the user asks for a rerun without touching a widget
Rerun ==
    /\ pc = "end"
    /\ StartRun
    /\ prev' = Snapshot
    /\ UNCHANGED <<disk, cache, reads, session>>

\* the user adds a country to the multiselect or removes one
ToggleCountry(c) ==
    /\ pc = "end"
    /\ "sidebar" \in ran
    /\ c \in CountryOptions(cache[1])
    /\ countries' = IF c \in countries THEN countries \ {c} ELSE countries \cup {c}
    /\ StartRun
    /\ prev' = NoPrev
    /\ UNCHANGED <<disk, cache, reads, date_range, widgets>>

\* the user clicks a day in the range picker: the first click of a range
\* leaves a single day, the second completes the range
PickDate(d) ==
    /\ pc = "end"
    /\ "sidebar" \in ran
    /\ date_range' = IF Len(date_range) = 1 THEN <<date_range[1], d>> ELSE <<d>>
    /\ StartRun
    /\ prev' = NoPrev
    /\ UNCHANGED <<disk, cache, reads, countries, widgets>>

\* --------------------------------------------------------- the environment
\* The file may be removed, and a file put in its place, at any time.  The
\* script looks at the disk on lines 21 and 24 only, so a change counts
\* where it falls between two runs or between these two lines.
RemoveFile ==
    /\ pc \in {"end", "read"}
    /\ fileExists
    /\ fileExists' = FALSE
    /\ fileData' = <<>>
    /\ UNCHANGED <<cache, reads, pc, outcome, ran, session, df, frames, prev>>

WriteFile ==
    /\ pc \in {"end", "read"}
    /\ ~fileExists
    /\ fileExists' = TRUE
    /\ fileData' = OtherFile
    /\ UNCHANGED <<cache, reads, pc, outcome, ran, session, df, frames, prev>>

Next ==
    \/ LoadDataHit
    \/ LoadDataExists
    \/ LoadDataRead
    \/ LoadDataRaises
    \/ LoadDataMissing
    \/ Sidebar
    \/ FilterRaises
    \/ FilterEmpty
    \/ FilterData
    \/ Aggregate
    \/ KpiMetrics
    \/ TabsRaise
    \/ TabsRender
    \/ Footer
    \/ Rerun
    \/ \E c \in Countries : ToggleCountry(c)
    \/ \E d \in Dates : PickDate(d)
    \/ RemoveFile
    \/ WriteFile

Spec == Init /\ [][Next]_vars

\* ==================================================================== claims
Rows(frame) == {frame[i] : i \in DOMAIN frame}
Matches(r) ==
    /\ r.country \in countries
    /\ date_range[1] <= r.date
    /\ r.date <= date_range[2]
Ascending(frame) ==
    \A i, j \in DOMAIN frame : i < j => frame[i].index < frame[j].index
RowsOf(frame, c) == {r \in Rows(frame) : r.country = c}
LatestDate(frame, c) ==
    CHOOSE d \in {r.date : r \in RowsOf(frame, c)} :
        \A r \in RowsOf(frame, c) : r.date <= d
SameNumbers(a, b) == \A col \in NumColSet : a[col] = b[col]
AfterFilter == {"aggregate", "kpi", "footer", "exception"} \cup Tabs

\* C1: once the filter step of a run has computed filtered_df, filtered_df
\* holds exactly the rows of df whose country is selected and whose date lies
\* in the inclusive interval [date_range[1], date_range[2]], in df's order.
C1_FilterExact ==
    "filter" \in ran =>
        /\ \A r \in Rows(filtered_df) : r \in Rows(df) /\ Matches(r)
        /\ \A r \in Rows(df) : Matches(r) => r \in Rows(filtered_df)
        /\ Ascending(filtered_df)

\* a row dated on the interval's last day is kept, a later row of the same
\* selected country is left out
C1_Witness ==
    /\ "filter" \in ran
    /\ \E r \in Rows(filtered_df) : r.date = date_range[2]
    /\ \E r \in Rows(df) : r.country \in countries /\ r.date > date_range[2]

\* C2: a run whose filtered_df is empty shows the warning and has stopped:
\* no aggregation, KPI, tab or footer (and no exception) in that run.
C2_EmptyHalts ==
    ("filter" \in ran /\ filtered_df = <<>>) =>
        /\ "warning" \in ran
        /\ pc = "end"
        /\ outcome = "EmptyFilterResult"
        /\ ran \cap AfterFilter = {}
        /\ clean_df = NoData /\ latest = NoData /\ kpi = NoData /\ stats = NoData

\* the run halted on an empty selection of countries over a non-empty df
C2_Witness ==
    /\ outcome = "EmptyFilterResult"
    /\ countries = {}
    /\ Len(date_range) = 2
    /\ df # <<>>

\* C3: when load_data's body runs (no memoized entry) and its existence test
\* finds the file absent, the run shows the error and ends there: nothing is
\* read, no dataframe is produced or memoized, no later section of the script
\* runs.
C3_MissingFileHalts ==
    [][(pc = "load" /\ cache = <<>> /\ ~fileExists) =>
         /\ pc' = "end"
         /\ outcome' = "MissingFile"
         /\ ran' = {"error"}
         /\ reads' = reads
         /\ cache' = <<>>
         /\ df' = NoData
         /\ filtered_df' = NoData /\ clean_df' = NoData /\ latest' = NoData]_vars

\* a run that ended on the missing file, after a rerun that ended there too
C3_Witness ==
    /\ outcome = "MissingFile"
    /\ pc = "end"
    /\ prev # NoPrev
    /\ ~fileExists

\* C4: after the aggregation step, latest has exactly one row for every
\* country of filtered_df, dated with the latest date of that country's rows,
\* and no row for any other country.
C4_LatestPerCountry ==
    "aggregate" \in ran =>
        /\ \A c \in CountryOptions(filtered_df) :
              /\ Cardinality({i \in DOMAIN latest : latest[i].country = c}) = 1
              /\ \A i \in DOMAIN latest :
                    latest[i].country = c => latest[i].date = LatestDate(filtered_df, c)
        /\ \A i \in DOMAIN latest : latest[i].country \in CountryOptions(filtered_df)

\* a country whose later row precedes its earlier row in filtered_df
C4_Witness ==
    /\ "aggregate" \in ran
    /\ \E i, j \in DOMAIN filtered_df :
          /\ i < j
          /\ filtered_df[i].country = filtered_df[j].country
          /\ filtered_df[i].date > filtered_df[j].date

\* C5: every row of latest carries the four numeric values (missing ones
\* included) of one record of filtered_df: a record of that country with the
\* country's latest date.
C5_LatestIsWholeRecord ==
    "aggregate" \in ran =>
        \A i \in DOMAIN latest :
            \E r \in RowsOf(filtered_df, latest[i].country) :
                /\ r.date = LatestDate(filtered_df, latest[i].country)
                /\ SameNumbers(latest[i], r)

\* C6: after the aggregation step, clean_df holds exactly the rows of
\* filtered_df without a missing value in any of the four numeric columns,
\* projected on these columns, in filtered_df's order.
C6_CleanNumeric ==
    "aggregate" \in ran =>
        /\ \A r \in Rows(clean_df) :
              /\ \A col \in NumColSet : r[col] # NaN
              /\ \E f \in Rows(filtered_df) : f.index = r.index /\ SameNumbers(r, f)
        /\ \A f \in Rows(filtered_df) :
              (\A col \in NumColSet : f[col] # NaN) =>
                  \E r \in Rows(clean_df) : r.index = f.index
        /\ Ascending(clean_df)
        /\ Len(clean_df) <= Len(filtered_df)

\* rows missing only a later column are dropped next to rows that are kept
C6_Witness ==
    /\ "aggregate" \in ran
    /\ clean_df # <<>>
    /\ \E f \in Rows(filtered_df) :
          f.total_vaccinations # NaN /\ f.daily_vaccinations = NaN

\* C7 as claimed: the process calls pd.read_csv at most once, and the df of
\* every run is the memoized dataframe.
C7_ReadAtMostOnce ==
    /\ reads <= 1
    /\ df # NoData => cache # <<>> /\ df = cache[1]

\* C7, amended: once load_data has returned a dataframe it is memoized:
\* pd.read_csv is not called again, the memoized dataframe never changes,
\* and the df of every run is that dataframe from load_data to the end of
\* the run.  (A run whose load_data stops or raises stores nothing.)
C7_ReadOnceAfterLoad ==
    [][/\ (cache # <<>> => cache' = cache /\ reads' = reads)
       /\ (df' # NoData => cache' # <<>> /\ df' = cache'[1])]_vars

\* after a read_csv call that raised and one that returned, a later run
\* works on the memoized dataframe while the file on disk is gone
C7_Witness ==
    /\ reads = 2
    /\ prev # NoPrev
    /\ "filter" \in ran
    /\ df # NoData
    /\ ~fileExists

\* C8: a rerun with the same widget values ends as the run before it did and
\* yields the same filtered_df, latest and clean_df (the run before had a
\* Dataset, that is, its load_data returned).
C8_RerunIdentical ==
    (/\ pc = "end"
     /\ prev # NoPrev
     /\ prev.loaded
     /\ prev.countries = countries
     /\ prev.date_range = date_range) =>
        /\ outcome = prev.outcome
        /\ filtered_df = prev.filtered_df
        /\ latest = prev.latest
        /\ clean_df = prev.clean_df

\* a rendered run repeated after the file was removed, and a halted run
\* repeated
C8_Witness ==
    /\ pc = "end"
    /\ prev # NoPrev
    /\ prev.outcome = "Rendered"
    /\ outcome = "Rendered"
    /\ ~fileExists
    /\ Len(filtered_df) < Len(df)

\* C9: when two or more rows of a country share its latest date, the row of
\* latest is the one of them that comes last in df.  Stated for countries
\* whose rows have no missing value, where GroupBy.last returns whole rows.
C9_TiesByRowOrder ==
    "aggregate" \in ran =>
        \A i \in DOMAIN latest :
            LET c == latest[i].country
                top == {r \in RowsOf(filtered_df, c) :
                            r.date = LatestDate(filtered_df, c)}
            IN  (/\ Cardinality(top) >= 2
                 /\ \A r \in RowsOf(filtered_df, c) : ~HasMissing(r)) =>
                    \E r \in top :
                        /\ \A q \in top : q.index <= r.index
                        /\ SameNumbers(latest[i], r)

\* C10: a run ends on the missing file, on the empty filter result or with
\* the complete page; with a non-empty filtered_df it ends with the page.
\* Stated for the runs whose load_data stopped or returned: a load that
\* raises on a vanished or malformed file is left aside.
C10_ThreeOutcomes ==
    (pc = "end" /\ "read_csv" \in ran => df # NoData) =>
    (pc = "end" =>
        /\ outcome \in {"MissingFile", "EmptyFilterResult", "Rendered"}
        /\ "exception" \notin ran
        /\ outcome = "Rendered" =>
              {"kpi", "footer"} \cup Tabs \subseteq ran /\ stats # NoData
        /\ ("filter" \in ran /\ filtered_df # <<>>) => outcome = "Rendered")

====
